---- MODULE Spec2Model ----
(***************************************************************************)
(* A model of src/src/lib.rs (factorio-benchmark-helper-file): the stored  *)
(* TopLevel document with its JSON codec, the read/write procedures with   *)
(* their overwrite guard, the BTreeSet<Mod>/BTreeSet<Map> containers, and  *)
(* the two recursive meta-set walks, taken one call/loop step at a time.   *)
(*                                                                         *)
(* Strings are drawn from the ordered universe StrOrder; names of sets are *)
(* drawn from Names.  Both sequences list their strings in lexicographic   *)
(* order, the order BTreeMap/BTreeSet iterate in.                          *)
(*                                                                         *)
(* SpecCrud follows the read/write procedures on one file; SpecSets a      *)
(* caller that fills a BenchmarkSet, writes it and reads it back; SpecWalk *)
(* the two walks on every document within the bounds; SpecWalkFair the     *)
(* walks under the fairness that lets a call run to its end.               *)
(***************************************************************************)
EXTENDS Naturals, Sequences, FiniteSets, TLC

VARIABLES
    file,                    \* the backing file: [status, json]
    last,                    \* the last procedure call and what it returned
    bset,                    \* a BTreeSet<Mod> and a BTreeSet<Map> under insertion
    top_level,               \* the TopLevel a walk was handed
    stack,                   \* the nested calls of the recursive walk
    seen_keys,               \* Vec<String>
    current_benchmark_sets,  \* HashMap<String, BenchmarkSet>
    current_meta_sets,       \* Vec<String>
    walk,                    \* [pc, fn, key]: which walk runs, and from where
    expanded                 \* how often each key's member list was iterated

vars == <<file, last, bset, top_level, stack, seen_keys,
          current_benchmark_sets, current_meta_sets, walk, expanded>>

walkVars == <<top_level, stack, seen_keys, current_benchmark_sets,
              current_meta_sets, walk, expanded>>

\* --------------------------------------------------------------- bounds
MaxMetaSets == 3        \* meta sets in a document handed to a walk
MaxMembers == 4         \* member names over all meta sets of such a document
MaxBenchmarkSets == 1   \* benchmark sets in a document handed to get_sets_from_meta
MaxMods == 2            \* mods inserted into one BenchmarkSet
MaxMaps == 2            \* maps inserted into one BenchmarkSet
MaxDepth == 6           \* nested calls a walk is followed to

\* -------------------------------------------------------------- strings
Names == <<"a", "b", "c", "d">>
NameSet == {Names[i] : i \in 1..Len(Names)}
CrudNames == {"a", "b"}

StrOrder == <<"", "x", "y">>
StrRanks == [s \in {StrOrder[i] : i \in 1..Len(StrOrder)} |->
                CHOOSE i \in 1..Len(StrOrder) : StrOrder[i] = s]
NameRanks == [n \in NameSet |-> CHOOSE i \in 1..Len(Names) : Names[i] = n]
StrRank(s) == StrRanks[s]
NameRank(n) == NameRanks[n]

\* String's Ord on names: the order a BTreeSet<String> iterates in.
RECURSIVE NameIter(_)
NameIter(S) ==
    IF S = {} THEN <<>>
    ELSE LET m == CHOOSE x \in S : \A y \in S : NameRank(x) <= NameRank(y)
         IN <<m>> \o NameIter(S \ {m})

Range(q) == {q[i] : i \in 1..Len(q)}

\* Lexicographic order on tuples of strings, as #[derive(Ord)] compares fields.
RECURSIVE TupleCmp(_, _)
TupleCmp(a, b) ==
    IF a = <<>> THEN "Equal"
    ELSE IF StrRank(Head(a)) < StrRank(Head(b)) THEN "Less"
    ELSE IF StrRank(Head(a)) > StrRank(Head(b)) THEN "Greater"
    ELSE TupleCmp(Tail(a), Tail(b))

\* ------------------------------------------------------------ Mod, Map
\* struct Mod { name, file_name (serde skip), version, sha1 }
Mod(name, file_name, version, hash) ==
    [name |-> name, file_name |-> file_name, version |-> version, sha1 |-> hash]

\* #[derive(PartialOrd, Ord)] on Mod: every field, in declaration order.
ModCmp(a, b) ==
    TupleCmp(<<a.name, a.file_name, a.version, a.sha1>>,
             <<b.name, b.file_name, b.version, b.sha1>>)

ModEq_Derived(a, b) == a = b

\* impl PartialEq for Mod
ModEq(a, b) == a.sha1 = b.sha1 /\ a.sha1 # ""

\* struct Map { name, path (serde skip), sha256, download_link }
Map(name, path, sha256, download_link) ==
    [name |-> name, path |-> path, sha256 |-> sha256,
     download_link |-> download_link]

\* #[derive(Ord, PartialOrd)] on Map: every field, in declaration order.
MapCmp(a, b) ==
    TupleCmp(<<a.name, a.path, a.sha256, a.download_link>>,
             <<b.name, b.path, b.sha256, b.download_link>>)

\* impl PartialEq for Map
MapEq(a, b) == a.sha256 = b.sha256

\* BTreeSet<T>::insert: the set keeps one element per Ord-equivalence class, and
\* an element comparing Equal to a held one is not added.
ModSetInsert(s, m) ==
    IF \E y \in s : ModCmp(m, y) = "Equal" THEN s ELSE s \cup {m}

MapSetInsert(s, m) ==
    IF \E y \in s : MapCmp(m, y) = "Equal" THEN s ELSE s \cup {m}

\* BTreeSet<T>::iter: ascending by Ord.
RECURSIVE ModIter(_)
ModIter(s) ==
    IF s = {} THEN <<>>
    ELSE LET m == CHOOSE x \in s : \A y \in s : ModCmp(x, y) # "Greater"
         IN <<m>> \o ModIter(s \ {m})

RECURSIVE MapIter(_)
MapIter(s) ==
    IF s = {} THEN <<>>
    ELSE LET m == CHOOSE x \in s : \A y \in s : MapCmp(x, y) # "Greater"
         IN <<m>> \o MapIter(s \ {m})

\* BTreeSet<Mod> == BTreeSet<Mod>: same length and pairwise == in iteration order.
ModSetEq(s, t) ==
    LET a == ModIter(s)
        b == ModIter(t)
    IN Len(a) = Len(b) /\ \A i \in 1..Len(a) : ModEq(a[i], b[i])

MapSetEq(s, t) ==
    LET a == MapIter(s)
        b == MapIter(t)
    IN Len(a) = Len(b) /\ \A i \in 1..Len(a) : MapEq(a[i], b[i])

\* -------------------------------------------------------- BenchmarkSet
\* save_subdirectory: Option<PathBuf> is <<>> (None) or <<path>> (Some).
BenchmarkSet(save_subdirectory, mods, maps, ticks, runs) ==
    [save_subdirectory |-> save_subdirectory, mods |-> mods, maps |-> maps,
     ticks |-> ticks, runs |-> runs]

\* impl Default for BenchmarkSet
DefaultBenchmarkSet == BenchmarkSet(<<>>, {}, {}, 0, 0)

\* #[derive(PartialEq)] on BenchmarkSet: field by field.
BenchmarkSetEq(a, b) ==
    /\ a.save_subdirectory = b.save_subdirectory
    /\ ModSetEq(a.mods, b.mods)
    /\ MapSetEq(a.maps, b.maps)
    /\ a.ticks = b.ticks
    /\ a.runs = b.runs

\* #[derive(Default)] on TopLevel
DefaultTopLevel == [benchmark_sets |-> <<>>, meta_sets |-> <<>>]

\* BTreeMap::insert: the entry under the key is added or replaced.
MapInsert(m, k, v) == (k :> v) @@ m

\* --------------------------------------------------------------- codec
\* #[derive(Serialize)]: file_name and path are skipped, sets are written as
\* arrays in iteration order, a None save_subdirectory is left out (<<>>).
SerializeMod(m) == [name |-> m.name, version |-> m.version, sha1 |-> m.sha1]

SerializeMap(m) ==
    [name |-> m.name, sha256 |-> m.sha256, download_link |-> m.download_link]

SerializeBenchmarkSet(b) ==
    LET mods == ModIter(b.mods)
        maps == MapIter(b.maps)
    IN [save_subdirectory |-> b.save_subdirectory,
        mods |-> [i \in 1..Len(mods) |-> SerializeMod(mods[i])],
        maps |-> [i \in 1..Len(maps) |-> SerializeMap(maps[i])],
        ticks |-> b.ticks, runs |-> b.runs]

SerializeTopLevel(t) ==
    [benchmark_sets |->
        [k \in DOMAIN t.benchmark_sets |-> SerializeBenchmarkSet(t.benchmark_sets[k])],
     meta_sets |-> [k \in DOMAIN t.meta_sets |-> NameIter(t.meta_sets[k])]]

\* #[derive(Deserialize)]: a skipped field takes its Default (the empty string),
\* and an array is collected into a BTreeSet by inserting its elements in turn.
DeserializeMod(j) == Mod(j.name, "", j.version, j.sha1)

DeserializeMap(j) == Map(j.name, "", j.sha256, j.download_link)

RECURSIVE CollectMods(_, _)
CollectMods(q, s) ==
    IF q = <<>> THEN s
    ELSE CollectMods(Tail(q), ModSetInsert(s, DeserializeMod(Head(q))))

RECURSIVE CollectMaps(_, _)
CollectMaps(q, s) ==
    IF q = <<>> THEN s
    ELSE CollectMaps(Tail(q), MapSetInsert(s, DeserializeMap(Head(q))))

DeserializeBenchmarkSet(j) ==
    BenchmarkSet(j.save_subdirectory, CollectMods(j.mods, {}),
                 CollectMaps(j.maps, {}), j.ticks, j.runs)

DeserializeTopLevel(j) ==
    [benchmark_sets |->
        [k \in DOMAIN j.benchmark_sets |-> DeserializeBenchmarkSet(j.benchmark_sets[k])],
     meta_sets |-> [k \in DOMAIN j.meta_sets |-> Range(j.meta_sets[k])]]

\* ---------------------------------------------------------------- file
\* The file is missing, unreadable, undecodable, or holds a JSON document.
NoJson == SerializeTopLevel(DefaultTopLevel)
FileOf(t) == [status |-> "Ok", json |-> SerializeTopLevel(t)]
BadFile(e) == [status |-> e, json |-> NoJson]
\* The ProcedureError values a load returns.
LoadError == {"FileNotFound", "MalformedJSON", "UnknownReadError"}

load_top_level_from_file(f) ==
    IF f.status = "FileNotFound" THEN [ok |-> FALSE, err |-> "FileNotFound", value |-> DefaultTopLevel]
    ELSE IF f.status = "UnknownReadError" THEN [ok |-> FALSE, err |-> "UnknownReadError", value |-> DefaultTopLevel]
    ELSE IF f.status = "MalformedJSON" THEN [ok |-> FALSE, err |-> "MalformedJSON", value |-> DefaultTopLevel]
    ELSE [ok |-> TRUE, err |-> "", value |-> DeserializeTopLevel(f.json)]

\* Option<BenchmarkSet> and Option<BTreeSet<String>> are <<>> or <<value>>.
read_benchmark_set_from_file(name, f) ==
    LET m == load_top_level_from_file(f)
    IN IF m.ok /\ name \in DOMAIN m.value.benchmark_sets
       THEN <<m.value.benchmark_sets[name]>>
       ELSE <<>>

read_meta_from_file(name, f) ==
    LET m == load_top_level_from_file(f)
    IN IF m.ok /\ name \in DOMAIN m.value.meta_sets
       THEN <<m.value.meta_sets[name]>>
       ELSE <<>>

\* ------------------------------------------------------- write procedures
StartingTopLevel_Fresh(f) == DefaultTopLevel

\* match load_top_level_from_file(&file) { Ok(m) => m, _ => TopLevel::default() }
StartingTopLevel(f) ==
    LET m == load_top_level_from_file(f)
    IN IF m.ok THEN m.value ELSE DefaultTopLevel

AlreadyExists_Or(collection, name, overwrite) ==
    name \in DOMAIN collection \/ ~overwrite

AlreadyExists_Inverted(collection, name, overwrite) ==
    name \in DOMAIN collection /\ overwrite

\* top_level.<collection>.contains_key(name) && overwrite == false.into()
AlreadyExists(collection, name, overwrite) ==
    name \in DOMAIN collection /\ ~overwrite

\* std::fs::write(file, serde_json::to_string_pretty(&top_level).unwrap()): the
\* file is replaced whole, whatever it was.  The storage is taken to accept the
\* write and the paths to be UTF-8; where either fails, the unwrap panics.
StoreTopLevel(t) == FileOf(t)

\* What `last` records of a call: its arguments, how the load it began with ended
\* ("" for Ok), whether the name was held already, and what it returned.
NoCall == [op |-> "none", name |-> "", overwrite |-> FALSE, arg |-> <<>>,
           load |-> "", existed |-> FALSE, ret |-> "", out |-> <<>>]

Call(op, name, overwrite, arg, load, existed, ret, out) ==
    [op |-> op, name |-> name, overwrite |-> overwrite, arg |-> arg,
     load |-> load, existed |-> existed, ret |-> ret, out |-> out]

write_benchmark_set_to_file(set_name, set, overwrite) ==
    LET top == StartingTopLevel(file)
        load == load_top_level_from_file(file).err
    IN /\ IF AlreadyExists(top.benchmark_sets, set_name, overwrite)
          THEN /\ file' = file
               /\ last' = Call("write_benchmark_set_to_file", set_name, overwrite,
                               <<set>>, load, TRUE, "ProcedureAlreadyExists", <<>>)
          ELSE /\ file' = StoreTopLevel(
                      [top EXCEPT !.benchmark_sets = MapInsert(@, set_name, set)])
               /\ last' = Call("write_benchmark_set_to_file", set_name, overwrite,
                               <<set>>, load, set_name \in DOMAIN top.benchmark_sets,
                               "Ok", <<>>)
       /\ UNCHANGED <<bset, walkVars>>

write_meta_to_file(name, members, force) ==
    LET top == StartingTopLevel(file)
        load == load_top_level_from_file(file).err
    IN /\ IF AlreadyExists(top.meta_sets, name, force)
          THEN /\ file' = file
               /\ last' = Call("write_meta_to_file", name, force, <<members>>, load,
                               TRUE, "ProcedureAlreadyExists", <<>>)
          ELSE /\ file' = StoreTopLevel(
                      [top EXCEPT !.meta_sets = MapInsert(@, name, members)])
               /\ last' = Call("write_meta_to_file", name, force, <<members>>, load,
                               name \in DOMAIN top.meta_sets, "Ok", <<>>)
       /\ UNCHANGED <<bset, walkVars>>

ReadBenchmarkSet(name) ==
    /\ last' = Call("read_benchmark_set_from_file", name, FALSE, <<>>,
                    load_top_level_from_file(file).err,
                    name \in DOMAIN StartingTopLevel(file).benchmark_sets, "",
                    read_benchmark_set_from_file(name, file))
    /\ UNCHANGED <<file, bset, walkVars>>

ReadMeta(name) ==
    /\ last' = Call("read_meta_from_file", name, FALSE, <<>>,
                    load_top_level_from_file(file).err,
                    name \in DOMAIN StartingTopLevel(file).meta_sets, "",
                    read_meta_from_file(name, file))
    /\ UNCHANGED <<file, bset, walkVars>>

\* ------------------------------------------------------ value universes
SubsetsUpTo(S, n) == {T \in SUBSET S : Cardinality(T) <= n}

Mods == {Mod("x", f, "x", h) : f \in {"", "y"}, h \in {"", "x", "y"}}
Maps == {Map("x", p, h, "x") : p \in {"", "y"}, h \in {"", "x"}}

\* Two records, enough to tell a replaced record from a kept one: the default,
\* and one whose two mods differ in file_name alone.
CrudSets ==
    {DefaultBenchmarkSet,
     BenchmarkSet(<<"x">>, {Mod("x", "", "x", "x"), Mod("x", "y", "x", "x")},
                  {Map("x", "y", "x", "x")}, 1, 1)}

WalkIdle == [pc |-> "idle", fn |-> "", key |-> ""]

NoWalk ==
    /\ top_level = DefaultTopLevel
    /\ stack = <<>>
    /\ seen_keys = <<>>
    /\ current_benchmark_sets = <<>>
    /\ current_meta_sets = <<>>
    /\ walk = WalkIdle
    /\ expanded = [n \in NameSet |-> 0]

NoSets == [mods |-> {}, maps |-> {}]

\* ------------------------------------------- the read/write procedures
InitCrud ==
    /\ file \in {BadFile(e) : e \in LoadError}
    /\ last = NoCall
    /\ bset = NoSets
    /\ NoWalk

NextCrud ==
    \/ \E n \in CrudNames, s \in CrudSets, o \in BOOLEAN :
          write_benchmark_set_to_file(n, s, o)
    \/ \E n \in CrudNames, m \in SUBSET CrudNames, o \in BOOLEAN :
          write_meta_to_file(n, m, o)
    \/ \E n \in CrudNames : ReadBenchmarkSet(n)
    \/ \E n \in CrudNames : ReadMeta(n)

SpecCrud == InitCrud /\ [][NextCrud]_vars

\* ------------------------------- building, writing, re-reading a set
\* A caller fills a BenchmarkSet's mods and maps by insertion, writes it under
\* the name "a" with overwrite = true, and reads it back.
InsertMod(m) ==
    /\ Cardinality(bset.mods) < MaxMods
    /\ bset' = [bset EXCEPT !.mods = ModSetInsert(@, m)]
    /\ UNCHANGED <<file, last, walkVars>>

InsertMap(m) ==
    /\ Cardinality(bset.maps) < MaxMaps
    /\ bset' = [bset EXCEPT !.maps = MapSetInsert(@, m)]
    /\ UNCHANGED <<file, last, walkVars>>

InitSets ==
    /\ file = BadFile("FileNotFound")
    /\ last = NoCall
    /\ bset = NoSets
    /\ NoWalk

NextSets ==
    \/ \E m \in Mods : InsertMod(m)
    \/ \E m \in Maps : InsertMap(m)
    \/ \E d \in {<<>>, <<"x">>} :
          write_benchmark_set_to_file("a", BenchmarkSet(d, bset.mods, bset.maps, 0, 0), TRUE)
    \/ ReadBenchmarkSet("a")

SpecSets == InitSets /\ [][NextSets]_vars

\* ------------------------------------------------------- the meta walks
\* One nested call of a recursive walk: its key, where it stands (at its first
\* line, in its for loop, past the loop) and the members the loop has yet to take.
Frame(key) == [key |-> key, pc |-> "enter", rest |-> <<>>]

Top == stack[Len(stack)]
Pop == SubSeq(stack, 1, Len(stack) - 1)
SetTop(f) == [stack EXCEPT ![Len(stack)] = f]
Running(fn) == walk.pc = "running" /\ walk.fn = fn /\ stack # <<>>

\* The walk's state once its frame has returned: the outermost return ends it.
Returned == IF Len(stack) = 1 THEN [walk EXCEPT !.pc = "done"] ELSE walk

Seen_Never(key) == FALSE

Seen_Last(key) == seen_keys # <<>> /\ key = seen_keys[Len(seen_keys)]

\* seen_keys.contains(&key)
Seen(key) == key \in Range(seen_keys)

\* get_sets_from_meta up to its call of the walk; the unwrap panics on a failed load.
get_sets_from_meta(meta_set_key) ==
    LET m == load_top_level_from_file(file)
    IN /\ walk.pc = "idle"
       /\ walk.fn = "get_sets_from_meta"
       /\ IF m.ok
          THEN /\ top_level' = m.value
               /\ stack' = <<Frame(meta_set_key)>>
               /\ walk' = [pc |-> "running", fn |-> "get_sets_from_meta",
                           key |-> meta_set_key]
          ELSE /\ walk' = [pc |-> "panicked", fn |-> "get_sets_from_meta",
                           key |-> meta_set_key]
               /\ UNCHANGED <<top_level, stack>>
       /\ UNCHANGED <<file, last, bset, seen_keys, current_benchmark_sets,
                      current_meta_sets, expanded>>

\* walk_meta_recursive_for_benchmarks, lines 277-279: the visited guard, then the
\* meta-set test and seen_keys.push.
BenchmarksEnter ==
    /\ Running("get_sets_from_meta")
    /\ Top.pc = "enter"
    /\ IF Seen(Top.key)
       THEN /\ stack' = Pop
            /\ walk' = Returned
            /\ UNCHANGED <<seen_keys, expanded>>
       ELSE IF Top.key \in DOMAIN top_level.meta_sets
       THEN /\ seen_keys' = Append(seen_keys, Top.key)
            /\ stack' = SetTop([Top EXCEPT !.pc = "for",
                                   !.rest = NameIter(top_level.meta_sets[Top.key])])
            /\ expanded' = [expanded EXCEPT ![Top.key] = @ + 1]
            /\ UNCHANGED walk
       ELSE /\ stack' = SetTop([Top EXCEPT !.pc = "after"])
            /\ UNCHANGED <<seen_keys, walk, expanded>>
    /\ UNCHANGED <<file, last, bset, top_level, current_benchmark_sets,
                   current_meta_sets>>

\* lines 280-287: the for loop takes its next member and calls the walk on it.
BenchmarksFor ==
    /\ Running("get_sets_from_meta")
    /\ Top.pc = "for"
    /\ IF Top.rest = <<>>
       THEN stack' = SetTop([Top EXCEPT !.pc = "after"])
       ELSE /\ Len(stack) < MaxDepth
            /\ stack' = Append(SetTop([Top EXCEPT !.rest = Tail(@)]),
                               Frame(Head(Top.rest)))
    /\ UNCHANGED <<file, last, bset, top_level, seen_keys, current_benchmark_sets,
                   current_meta_sets, walk, expanded>>

BenchmarksInsert_Else ==
    /\ Running("get_sets_from_meta")
    /\ Top.pc = "after"
    /\ current_benchmark_sets' =
          IF /\ Top.key \notin DOMAIN top_level.meta_sets
             /\ Top.key \in DOMAIN top_level.benchmark_sets
          THEN MapInsert(current_benchmark_sets, Top.key,
                         top_level.benchmark_sets[Top.key])
          ELSE current_benchmark_sets
    /\ stack' = Pop
    /\ walk' = Returned
    /\ UNCHANGED <<file, last, bset, top_level, seen_keys, current_meta_sets,
                   expanded>>

\* lines 289-292: the benchmark-set test and insert, and the return.
BenchmarksInsert ==
    /\ Running("get_sets_from_meta")
    /\ Top.pc = "after"
    /\ current_benchmark_sets' =
          IF Top.key \in DOMAIN top_level.benchmark_sets
          THEN MapInsert(current_benchmark_sets, Top.key,
                         top_level.benchmark_sets[Top.key])
          ELSE current_benchmark_sets
    /\ stack' = Pop
    /\ walk' = Returned
    /\ UNCHANGED <<file, last, bset, top_level, seen_keys, current_meta_sets,
                   expanded>>

\* get_metas_from_meta up to its call of the walk; `?` returns a failed load.
get_metas_from_meta(meta_set_key) ==
    LET m == load_top_level_from_file(file)
    IN /\ walk.pc = "idle"
       /\ walk.fn = "get_metas_from_meta"
       /\ IF m.ok
          THEN /\ top_level' = m.value
               /\ stack' = <<Frame(meta_set_key)>>
               /\ walk' = [pc |-> "running", fn |-> "get_metas_from_meta",
                           key |-> meta_set_key]
          ELSE /\ walk' = [pc |-> m.err, fn |-> "get_metas_from_meta",
                           key |-> meta_set_key]
               /\ UNCHANGED <<top_level, stack>>
       /\ UNCHANGED <<file, last, bset, seen_keys, current_benchmark_sets,
                      current_meta_sets, expanded>>

\* walk_meta_recursive_for_metas, lines 317-318.
MetasEnter ==
    /\ Running("get_metas_from_meta")
    /\ Top.pc = "enter"
    /\ IF ~Seen(Top.key) /\ Top.key \in DOMAIN top_level.meta_sets
       THEN /\ seen_keys' = Append(seen_keys, Top.key)
            /\ stack' = SetTop([Top EXCEPT !.pc = "for",
                                   !.rest = NameIter(top_level.meta_sets[Top.key])])
            /\ expanded' = [expanded EXCEPT ![Top.key] = @ + 1]
            /\ UNCHANGED walk
       ELSE /\ stack' = Pop
            /\ walk' = Returned
            /\ UNCHANGED <<seen_keys, expanded>>
    /\ UNCHANGED <<file, last, bset, top_level, current_benchmark_sets,
                   current_meta_sets>>

\* lines 319-321: the for loop takes its next member and calls the walk on it.
MetasFor ==
    /\ Running("get_metas_from_meta")
    /\ Top.pc = "for"
    /\ IF Top.rest = <<>>
       THEN stack' = SetTop([Top EXCEPT !.pc = "after"])
       ELSE /\ Len(stack) < MaxDepth
            /\ stack' = Append(SetTop([Top EXCEPT !.rest = Tail(@)]),
                               Frame(Head(Top.rest)))
    /\ UNCHANGED <<file, last, bset, top_level, seen_keys, current_benchmark_sets,
                   current_meta_sets, walk, expanded>>

MetasPush_Front ==
    /\ Running("get_metas_from_meta")
    /\ Top.pc = "after"
    /\ current_meta_sets' = <<Top.key>> \o current_meta_sets
    /\ stack' = Pop
    /\ walk' = Returned
    /\ UNCHANGED <<file, last, bset, top_level, seen_keys, current_benchmark_sets,
                   expanded>>

MetasPush_Inner ==
    /\ Running("get_metas_from_meta")
    /\ Top.pc = "after"
    /\ current_meta_sets' =
          IF Len(stack) = 1 THEN current_meta_sets
          ELSE Append(current_meta_sets, Top.key)
    /\ stack' = Pop
    /\ walk' = Returned
    /\ UNCHANGED <<file, last, bset, top_level, seen_keys, current_benchmark_sets,
                   expanded>>

\* lines 322-323: current_meta_sets.push(key), and the return.
MetasPush ==
    /\ Running("get_metas_from_meta")
    /\ Top.pc = "after"
    /\ current_meta_sets' = Append(current_meta_sets, Top.key)
    /\ stack' = Pop
    /\ walk' = Returned
    /\ UNCHANGED <<file, last, bset, top_level, seen_keys, current_benchmark_sets,
                   expanded>>

\* The documents handed to a walk.  Their meta sets are every membership graph
\* over Names with at most maxSets meta sets and maxMembers member names in all.
Members(E, k) == {e[2] : e \in {x \in E : x[1] = k}}

MetaSetsOver(maxSets, maxMembers) ==
    {[k \in x[1] |-> Members(x[2], k)] :
        x \in {y \in SubsetsUpTo(NameSet, maxSets)
                       \X SubsetsUpTo(NameSet \X NameSet, maxMembers) :
                 {e[1] : e \in y[2]} \subseteq y[1]}}

\* Benchmark sets under the names K, each record told apart by its ticks.
BenchmarkSetsUnder(K) == [k \in K |-> BenchmarkSet(<<>>, {}, {}, NameRank(k), 0)]

\* get_metas_from_meta never reads benchmark_sets: its documents hold a
\* benchmark set under no name or under every name.  The documents of
\* get_sets_from_meta hold any MaxBenchmarkSets benchmark sets, over graphs that
\* are one meta set and one member smaller.
WalkDocuments(fn) ==
    IF fn = "get_metas_from_meta"
    THEN {[benchmark_sets |-> BenchmarkSetsUnder(K), meta_sets |-> m] :
            K \in {{}, NameSet}, m \in MetaSetsOver(MaxMetaSets, MaxMembers)}
    ELSE {[benchmark_sets |-> BenchmarkSetsUnder(K), meta_sets |-> m] :
            K \in SubsetsUpTo(NameSet, MaxBenchmarkSets),
            m \in MetaSetsOver(MaxMetaSets - 1, MaxMembers - 1)}

\* The documents termination is followed on: the smaller graphs, for both walks.
SmallDocuments(fn) ==
    {[benchmark_sets |-> BenchmarkSetsUnder(K), meta_sets |-> m] :
        K \in {{}, NameSet}, m \in MetaSetsOver(MaxMetaSets - 1, MaxMembers - 1)}

\* A caller about to call one of the two walks (walk.fn) on a file that holds a
\* document of Documents(walk.fn), or that fails to load.
InitWalkOver(Documents(_)) ==
    /\ \E fn \in {"get_sets_from_meta", "get_metas_from_meta"} :
          /\ walk = [pc |-> "idle", fn |-> fn, key |-> ""]
          /\ file \in {FileOf(t) : t \in Documents(fn)}
                      \cup {BadFile(e) : e \in LoadError}
    /\ last = NoCall
    /\ bset = NoSets
    /\ top_level = DefaultTopLevel
    /\ stack = <<>>
    /\ seen_keys = <<>>
    /\ current_benchmark_sets = <<>>
    /\ current_meta_sets = <<>>
    /\ expanded = [n \in NameSet |-> 0]

InitWalk == InitWalkOver(WalkDocuments)

InitWalkFair == InitWalkOver(SmallDocuments)

NextWalk ==
    \/ \E k \in NameSet : get_sets_from_meta(k)
    \/ BenchmarksEnter
    \/ BenchmarksFor
    \/ BenchmarksInsert
    \/ \E k \in NameSet : get_metas_from_meta(k)
    \/ MetasEnter
    \/ MetasFor
    \/ MetasPush

SpecWalk == InitWalk /\ [][NextWalk]_vars

\* Both walks are straight-line code: a call that can take a step takes it.
SpecWalkFair == InitWalkFair /\ [][NextWalk]_vars /\ WF_vars(NextWalk)

\* =================================================== the walks' claims
\* The stored document D a walk resolves against.
Document == load_top_level_from_file(file).value

\* The names reachable from the names R: R itself, and the members of every
\* meta set whose key is reachable.
RECURSIVE Closure(_, _)
Closure(D, R) ==
    LET N == R \cup UNION {D.meta_sets[k] : k \in R \cap DOMAIN D.meta_sets}
    IN IF N = R THEN R ELSE Closure(D, N)

Reachable(D, s) == Closure(D, {s})

\* n is reachable from the meta set m through at least one membership.
DependsOn(D, m, n) ==
    m \in DOMAIN D.meta_sets /\ n \in Closure(D, D.meta_sets[m])

Finished(fn) == walk.pc = "done" /\ walk.fn = fn

Position(q, x) == CHOOSE i \in 1..Len(q) : q[i] = x

C2_ReachableMetas ==
    Finished("get_metas_from_meta") =>
        /\ \A i, j \in 1..Len(current_meta_sets) :
              current_meta_sets[i] = current_meta_sets[j] => i = j
        /\ Range(current_meta_sets) =
              Reachable(Document, walk.key) \cap DOMAIN Document.meta_sets

\* A finished walk that returned two meta sets and passed over a reachable name
\* that is a benchmark set only.
C2_Witness ==
    /\ Finished("get_metas_from_meta")
    /\ Len(current_meta_sets) = 2
    /\ \E r \in Reachable(top_level, walk.key) :
          /\ r \in DOMAIN top_level.benchmark_sets
          /\ r \notin DOMAIN top_level.meta_sets

\* C3: every walk that starts reaches its done state, and no meta set's member
\* list is iterated more than once on the way.
C3_Terminates ==
    /\ [](\A n \in NameSet : expanded[n] <= 1)
    /\ (walk.pc = "running") ~> (walk.pc = "done")

\* A walk finished over a membership cycle: a meta set that depends on itself.
C3_Witness ==
    /\ walk.pc = "done"
    /\ \E k \in Range(seen_keys) : DependsOn(top_level, k, k)
    /\ Len(seen_keys) = 2

\* C4, as claimed: in the returned list every meta set comes after every other
\* meta set of the list that it depends on.
C4_DependenciesFirst ==
    Finished("get_metas_from_meta") =>
        \A m, n \in Range(current_meta_sets) :
            (m # n /\ DependsOn(Document, m, n)) =>
                Position(current_meta_sets, n) < Position(current_meta_sets, m)

\* C4, amended: in the returned list every meta set that lies on no membership
\* cycle (that does not depend on itself) comes after every other meta set of
\* the list that it depends on.
C4_DependenciesFirstOffCycles ==
    Finished("get_metas_from_meta") =>
        \A m, n \in Range(current_meta_sets) :
            (m # n /\ DependsOn(Document, m, n) /\ ~DependsOn(Document, m, m)) =>
                Position(current_meta_sets, n) < Position(current_meta_sets, m)

\* A returned list of three meta sets, the last off every cycle and depending on
\* the two before it, which lie on a cycle.
C4_Witness ==
    /\ Finished("get_metas_from_meta")
    /\ Len(current_meta_sets) = 3
    /\ ~DependsOn(top_level, current_meta_sets[3], current_meta_sets[3])
    /\ DependsOn(top_level, current_meta_sets[3], current_meta_sets[1])
    /\ DependsOn(top_level, current_meta_sets[1], current_meta_sets[2])
    /\ DependsOn(top_level, current_meta_sets[2], current_meta_sets[1])

\* C9, as claimed: the nested calls of a walk never outnumber the document's
\* meta-set keys.
C9_DepthWithinMetaSets ==
    walk.pc = "running" => Len(stack) <= Cardinality(DOMAIN top_level.meta_sets)

\* C9, amended: the nested calls of a walk never outnumber the document's
\* meta-set keys by more than one (the call on a member that is no meta set, or
\* was seen, still nests).
C9_DepthWithinMetaSetsPlusOne ==
    walk.pc = "running" => Len(stack) <= Cardinality(DOMAIN top_level.meta_sets) + 1

\* A walk nested one call deeper than the document has meta sets.
C9_Witness ==
    /\ walk.pc = "running"
    /\ Cardinality(DOMAIN top_level.meta_sets) = 2
    /\ Len(stack) = 3
    /\ Top.key \notin DOMAIN top_level.meta_sets

\* ============================================ the procedures' claims
Writes == {"write_benchmark_set_to_file", "write_meta_to_file"}

\* A BenchmarkSet as a load returns it once written.
Reloaded(v) == DeserializeBenchmarkSet(SerializeBenchmarkSet(v))

\* C5: with the file loading and the name held already, a write with
\* overwrite = false returns ProcedureAlreadyExists and leaves the file as it
\* was; a name held by the other collection only does not stop the write.
C5_OverwriteGuard ==
    [][LET pre == load_top_level_from_file(file)
       IN /\ (/\ last'.op = "write_benchmark_set_to_file"
              /\ pre.ok
              /\ ~last'.overwrite) =>
                 IF last'.name \in DOMAIN pre.value.benchmark_sets
                 THEN last'.ret = "ProcedureAlreadyExists" /\ file' = file
                 ELSE last'.ret = "Ok"
          /\ (/\ last'.op = "write_meta_to_file"
              /\ pre.ok
              /\ ~last'.overwrite) =>
                 IF last'.name \in DOMAIN pre.value.meta_sets
                 THEN last'.ret = "ProcedureAlreadyExists" /\ file' = file
                 ELSE last'.ret = "Ok"]_vars

\* A guarded write of a benchmark set, refused while another name is held as a
\* meta set only.
C5_Witness ==
    /\ last.op = "write_benchmark_set_to_file"
    /\ last.ret = "ProcedureAlreadyExists"
    /\ last.load = ""
    /\ DOMAIN Document.meta_sets \ DOMAIN Document.benchmark_sets # {}

\* C7: a write whose load fails, in whichever way, returns Ok under either
\* overwrite flag, and the file then holds the written record and nothing else.
C7_LoadFailureStartsEmpty ==
    (last.op \in Writes /\ last.load # "") =>
        /\ last.ret = "Ok"
        /\ load_top_level_from_file(file).ok
        /\ IF last.op = "write_benchmark_set_to_file"
           THEN /\ DOMAIN Document.benchmark_sets = {last.name}
                /\ Document.benchmark_sets[last.name] = Reloaded(last.arg[1])
                /\ DOMAIN Document.meta_sets = {}
           ELSE /\ DOMAIN Document.meta_sets = {last.name}
                /\ Document.meta_sets[last.name] = last.arg[1]
                /\ DOMAIN Document.benchmark_sets = {}

\* A write with overwrite = false over an undecodable file.
C7_Witness ==
    /\ last.op = "write_benchmark_set_to_file"
    /\ last.load = "MalformedJSON"
    /\ ~last.overwrite
    /\ last.ret = "Ok"

\* C10: with the file loading, a write that returns Ok changes nothing but the
\* entry under its name: the other collection and every other entry of its own
\* stay as they were, so no key of either collection is ever lost.
C10_WriteFrame ==
    [][LET pre == load_top_level_from_file(file)
           post == load_top_level_from_file(file')
       IN (pre.ok /\ last'.op \in Writes /\ last'.ret = "Ok") =>
            /\ post.ok
            /\ IF last'.op = "write_benchmark_set_to_file"
               THEN /\ post.value.meta_sets = pre.value.meta_sets
                    /\ DOMAIN post.value.benchmark_sets =
                          DOMAIN pre.value.benchmark_sets \cup {last'.name}
                    /\ \A k \in DOMAIN pre.value.benchmark_sets \ {last'.name} :
                          post.value.benchmark_sets[k] = pre.value.benchmark_sets[k]
               ELSE /\ post.value.benchmark_sets = pre.value.benchmark_sets
                    /\ DOMAIN post.value.meta_sets =
                          DOMAIN pre.value.meta_sets \cup {last'.name}
                    /\ \A k \in DOMAIN pre.value.meta_sets \ {last'.name} :
                          post.value.meta_sets[k] = pre.value.meta_sets[k]]_vars

\* An overwriting write into a file that holds another benchmark set, one with
\* mods, and a meta set.
C10_Witness ==
    /\ last.op = "write_benchmark_set_to_file"
    /\ last.ret = "Ok"
    /\ last.load = ""
    /\ last.existed
    /\ DOMAIN Document.meta_sets # {}
    /\ \E k \in DOMAIN Document.benchmark_sets :
          k # last.name /\ Document.benchmark_sets[k].mods # {}

\* C6, as claimed: after a write with overwrite = true under a held name, a read
\* of the name returns a record equal to the written one.
C6_RereadEqualsWritten ==
    (/\ last.op = "write_benchmark_set_to_file"
     /\ last.ret = "Ok"
     /\ last.overwrite
     /\ last.existed) =>
        LET r == read_benchmark_set_from_file(last.name, file)
        IN r # <<>> /\ BenchmarkSetEq(r[1], last.arg[1])

\* The non-persisted fields do not tell v's entries apart, and every mod of v
\* carries a hash.
Faithful(v) ==
    /\ \A m \in v.mods : m.sha1 # ""
    /\ \A m, n \in v.mods : m.file_name = n.file_name
    /\ \A m, n \in v.maps : m.path = n.path

\* C6, amended: after a write with overwrite = true under a held name, a read
\* of the name returns the written record as a load returns it, which is equal
\* to the written one if none of its mods has an empty sha1, its mods all carry
\* one file_name and its maps all carry one path.
C6_RereadEqualsFaithful ==
    (/\ last.op = "write_benchmark_set_to_file"
     /\ last.ret = "Ok"
     /\ last.overwrite
     /\ last.existed) =>
        LET r == read_benchmark_set_from_file(last.name, file)
        IN /\ r = <<Reloaded(last.arg[1])>>
           /\ Faithful(last.arg[1]) => BenchmarkSetEq(r[1], last.arg[1])

\* An overwrite with two mods and two maps that carry a file_name and a path,
\* both lost in the file.
C6_Witness ==
    /\ last.op = "write_benchmark_set_to_file"
    /\ last.ret = "Ok"
    /\ last.overwrite
    /\ last.existed
    /\ Faithful(last.arg[1])
    /\ Cardinality(last.arg[1].mods) = 2
    /\ Cardinality(last.arg[1].maps) = 2
    /\ \A m \in last.arg[1].mods : m.file_name = "y"
    /\ \A m \in last.arg[1].maps : m.path = "y"

\* C8, as claimed: a set of mods never holds two entries that are equal as Mods,
\* nor a set of maps two entries that are equal as Maps.
C8_NoEqualEntries ==
    /\ \A a, b \in bset.mods : a # b => ~ModEq(a, b)
    /\ \A a, b \in bset.maps : a # b => ~MapEq(a, b)

====
